---- MODULE Spec2Model ----
(***************************************************************************)
(* The Chat component of frontend/chatbot-ui/src/Chat.jsx as a state       *)
(* machine: the three useState cells (messages, input, loading), the       *)
(* suspended invocations of the async function sendMessage, the requests   *)
(* handed to fetch, and the DOM events and promise settlements that drive  *)
(* them.                                                                   *)
(*                                                                         *)
(* A handler of a DOM event is one step, the re-render that its state      *)
(* updates ask for included: React commits it before the next event is     *)
(* dispatched, so the input and loading that sendMessage reads from its    *)
(* closure are those of the state the event finds.  An invocation of       *)
(* sendMessage is suspended at each await, and events are handled in       *)
(* between.                                                                *)
(*                                                                         *)
(* Strings are sequences of characters, so that String.prototype.trim is   *)
(* computed and not looked up.  A JavaScript value that may or may not be  *)
(* a string (the text of a message) is a record [t, v]: t is its type and  *)
(* v the characters when t = "string".                                     *)
(***************************************************************************)
EXTENDS Integers, Sequences, FiniteSets, TLC

\* Number of submissions the model lets sendMessage accept.
MaxSubmits == 2

\* White space as String.prototype.trim sees it.
WhiteSpace == {" ", "\n"}

\* The values the textarea hands to onChange: empty, white space only, plain
\* text, and text with white space around it.
Texts ==
    {<<>>, <<" ", " ">>, <<"\n">>, <<"A">>, <<"B">>, <<" ", "A", " ">>}

\* Keys of a keydown event: Enter, and one key that is not Enter.
Keys == {"Enter", "A"}

Str(s) == [t |-> "string", v |-> s]
Undefined == [t |-> "undefined", v |-> <<>>]

API_URL == <<"http://127.0.0.1:8000/chat">>
\* The text of the catch block; the literal ends with an emoji, left out here.
FallbackText == Str(<<"Server not reachable">>)

\* Reply strings the service answers with.
Replies == {<<"H", "i">>}

(***************************************************************************)
(* What the service can send back.  A response has a status and a body;    *)
(* the body is either not JSON at all, or the JSON literal null, or a JSON *)
(* object that has a reply member or has none (such as an error report     *)
(* {"detail": ...}).                                                       *)
(***************************************************************************)
Bodies ==
    {[json |-> FALSE, null |-> FALSE, hasReply |-> FALSE, reply |-> <<>>],
     [json |-> TRUE, null |-> TRUE, hasReply |-> FALSE, reply |-> <<>>],
     [json |-> TRUE, null |-> FALSE, hasReply |-> FALSE, reply |-> <<>>]}
    \cup {[json |-> TRUE, null |-> FALSE, hasReply |-> TRUE, reply |-> r] : r \in Replies}
Responses == [status : {200, 500}, body : Bodies]
NoResponse == [status |-> 0, body |-> [json |-> FALSE, null |-> FALSE, hasReply |-> FALSE, reply |-> <<>>]]

VARIABLES
    messages,   \* useState([]): the conversation, a sequence of [role, text]
    input,      \* useState(""): the draft in the textarea
    loading,    \* useState(false): the busy flag
    calls,      \* invocations of sendMessage suspended at an await: where each
                \* waits (pc), its userText, the messages of the render it
                \* was created in (seen) and the response once there is one
    requests,   \* the requests handed to fetch, in order
    crashed,    \* an error was thrown while rendering: the tree is unmounted
    event       \* the event or settlement handled last

vars == <<messages, input, loading, calls, requests, crashed, event>>

----------------------------------------------------------------------------
\* String.prototype.trim

RECURSIVE TrimStart(_)
TrimStart(s) ==
    IF s # <<>> /\ Head(s) \in WhiteSpace THEN TrimStart(Tail(s)) ELSE s

RECURSIVE TrimEnd(_)
TrimEnd(s) ==
    IF s # <<>> /\ s[Len(s)] \in WhiteSpace
    THEN TrimEnd(SubSeq(s, 1, Len(s) - 1))
    ELSE s

Trim(s) == TrimEnd(TrimStart(s))

\* Variants of the guard: one forgets loading, one forgets to trim.
AcceptsWhileLoading(inp, ld) == Trim(inp) # <<>>
AcceptsUntrimmed(inp, ld) == inp # <<>> /\ ~ld

\* !input.trim() || loading, negated: sendMessage goes past its first line.
Accepts(inp, ld) == Trim(inp) # <<>> /\ ~ld

\* Variants of the updaters: the user message is not appended before the
\* request, the reply replaces the list, the catch block shows another text.
AppendUserLater(prev, userText) == prev
AppendBotReplacing(prev, text) == <<[role |-> "bot", text |-> text]>>
AppendErrorText(prev) == Append(prev, [role |-> "bot", text |-> Str(<<"Failed to fetch">>)])

\* Variant of the catch block's updater: the fallback takes the place of the
\* last message.
AppendFallbackOverLast(prev) ==
    [prev EXCEPT ![Len(prev)] = [role |-> "bot", text |-> FallbackText]]

\* The updaters handed to setMessages.
AppendUser(prev, userText) == Append(prev, [role |-> "user", text |-> Str(userText)])
AppendBot(prev, text) == Append(prev, [role |-> "bot", text |-> text])
AppendFallback(prev) == Append(prev, [role |-> "bot", text |-> FallbackText])

\* Variant: the text is trimmed before it is sent.
RequestTrimmed(userText) ==
    [url |-> API_URL, method |-> "POST", body |-> [message |-> Trim(userText)]]

\* The argument of fetch.
Request(userText) ==
    [url |-> API_URL, method |-> "POST", body |-> [message |-> userText]]

\* data.reply of a parsed body that is not null.
ReplyOf(body) == IF body.hasReply THEN Str(body.reply) ELSE Undefined

Ev(type, key, shiftKey, prevented) ==
    [type |-> type, key |-> key, shiftKey |-> shiftKey, defaultPrevented |-> prevented]

----------------------------------------------------------------------------
Init ==
    /\ messages = <<>>
    /\ input = <<>>
    /\ loading = FALSE
    /\ calls = <<>>
    /\ requests = <<>>
    /\ crashed = FALSE
    /\ event = Ev("mount", "", FALSE, FALSE)

\* sendMessage up to its first await: the guard, the three state updates and
\* the call of fetch.  The invocation then waits for the response.
SendMessage ==
    IF Accepts(input, loading)
    THEN /\ Len(requests) < MaxSubmits
         /\ messages' = AppendUser(messages, input)
         /\ input' = <<>>
         /\ loading' = TRUE
         /\ requests' = Append(requests, Request(input))
         /\ calls' = Append(calls, [pc |-> "fetch", userText |-> input,
                                    seen |-> messages, res |-> NoResponse])
    ELSE UNCHANGED <<messages, input, loading, requests, calls>>

\* Variant of onChange: the textarea is disabled while loading, like the button.
ChangeWhenIdle(text) ==
    /\ ~crashed
    /\ ~loading
    /\ input' = text
    /\ event' = Ev("change", "", FALSE, FALSE)
    /\ UNCHANGED <<messages, loading, calls, requests, crashed>>

\* onChange of the textarea: typing, deleting, pasting, the line break of
\* Shift+Enter.
Change(text) ==
    /\ ~crashed
    /\ input' = text
    /\ event' = Ev("change", "", FALSE, FALSE)
    /\ UNCHANGED <<messages, loading, calls, requests, crashed>>

\* Variant of onKeyDown: Enter submits whether Shift is held or not.
KeyDownAnyEnter(key, shiftKey) ==
    /\ ~crashed
    /\ IF key = "Enter"
       THEN /\ SendMessage
            /\ event' = Ev("keydown", key, shiftKey, TRUE)
       ELSE /\ event' = Ev("keydown", key, shiftKey, FALSE)
            /\ UNCHANGED <<messages, input, loading, requests, calls>>
    /\ UNCHANGED crashed

\* onKeyDown of the textarea.
KeyDown(key, shiftKey) ==
    /\ ~crashed
    /\ IF key = "Enter" /\ ~shiftKey
       THEN /\ SendMessage
            /\ event' = Ev("keydown", key, shiftKey, TRUE)
       ELSE /\ event' = Ev("keydown", key, shiftKey, FALSE)
            /\ UNCHANGED <<messages, input, loading, requests, calls>>
    /\ UNCHANGED crashed

\* onClick of the button, which is disabled while loading.
Click ==
    /\ ~crashed
    /\ ~loading
    /\ SendMessage
    /\ event' = Ev("click", "", FALSE, FALSE)
    /\ UNCHANGED crashed

Drop(s, i) == SubSeq(s, 1, i - 1) \o SubSeq(s, i + 1, Len(s))

\* Variant: loading is cleared as soon as the response is there.
FetchResolveClearing(i, res) ==
    /\ i \in 1..Len(calls)
    /\ calls[i].pc = "fetch"
    /\ calls' = [calls EXCEPT ![i] = [@ EXCEPT !.pc = "json", !.res = res]]
    /\ loading' = FALSE
    /\ event' = Ev("response", "", FALSE, FALSE)
    /\ UNCHANGED <<messages, input, requests, crashed>>

\* await fetch(...) resolves: the invocation goes on to await res.json().
FetchResolve(i, res) ==
    /\ i \in 1..Len(calls)
    /\ calls[i].pc = "fetch"
    /\ calls' = [calls EXCEPT ![i] = [@ EXCEPT !.pc = "json", !.res = res]]
    /\ event' = Ev("response", "", FALSE, FALSE)
    /\ UNCHANGED <<messages, input, loading, requests, crashed>>

\* Variants of the two blocks: one clears the draft as well, one has no
\* finally block.
CatchFinallyClearingDraft(i) ==
    /\ messages' = AppendFallback(messages)
    /\ loading' = FALSE
    /\ input' = <<>>
    /\ calls' = Drop(calls, i)
    /\ UNCHANGED <<requests, crashed>>
CatchWithoutFinally(i) ==
    /\ messages' = AppendFallback(messages)
    /\ calls' = Drop(calls, i)
    /\ UNCHANGED <<input, loading, requests, crashed>>

\* The catch block, then the finally block.
CatchFinally(i) ==
    /\ messages' = AppendFallback(messages)
    /\ loading' = FALSE
    /\ calls' = Drop(calls, i)
    /\ UNCHANGED <<input, requests, crashed>>

\* await fetch(...) rejects: the service could not be reached.
FetchReject(i) ==
    /\ i \in 1..Len(calls)
    /\ calls[i].pc = "fetch"
    /\ CatchFinally(i)
    /\ event' = Ev("networkError", "", FALSE, FALSE)

(***************************************************************************)
(* await res.json() settles.  A body that is not JSON rejects it, and the  *)
(* catch block runs.  Otherwise setMessages is handed the updater          *)
(* prev => [...prev, {role: "bot", text: data.reply}], which reads         *)
(* data.reply when it is called, and that is React's doing: with data null *)
(* the read throws a TypeError, either while setMessages is on the stack   *)
(* (inside try: the catch block runs) or while the component renders       *)
(* (outside try: nothing catches it, no message is appended and the        *)
(* component tree is unmounted; the finally block has run).                *)
(***************************************************************************)
JsonSettle(i) ==
    /\ i \in 1..Len(calls)
    /\ calls[i].pc = "json"
    /\ event' = Ev("body", "", FALSE, FALSE)
    /\ LET body == calls[i].res.body IN
       IF ~body.json
       THEN CatchFinally(i)
       ELSE IF body.null
       THEN \/ CatchFinally(i)
            \/ /\ crashed' = TRUE
               /\ loading' = FALSE
               /\ calls' = Drop(calls, i)
               /\ UNCHANGED <<messages, input, requests>>
       ELSE /\ messages' = AppendBot(messages, ReplyOf(body))
            /\ loading' = FALSE
            /\ calls' = Drop(calls, i)
            /\ UNCHANGED <<input, requests, crashed>>

Next ==
    \/ \E text \in Texts : Change(text)
    \/ \E key \in Keys, shiftKey \in BOOLEAN : KeyDown(key, shiftKey)
    \/ Click
    \/ \E i \in 1..Len(calls), res \in Responses : FetchResolve(i, res)
    \/ \E i \in 1..Len(calls) : FetchReject(i)
    \/ \E i \in 1..Len(calls) : JsonSettle(i)

Spec == Init /\ [][Next]_vars

\* Every request that was issued settles: the promise of fetch and the
\* promise of res.json() are each resolved or rejected in the end.
Settlement ==
    \/ \E i \in 1..Len(calls), res \in Responses : FetchResolve(i, res)
    \/ \E i \in 1..Len(calls) : FetchReject(i)
    \/ \E i \in 1..Len(calls) : JsonSettle(i)

FairSpec == Spec /\ WF_vars(Settlement)

----------------------------------------------------------------------------
\* What the component renders into chat-body: a sequence of bubbles.

\* The text of the pending bubble; the literal ends with an ellipsis character.
TypingText == Str(<<"Typing...">>)

\* The Message component: a row classed by role, a bubble classed typing or
\* not, the text inside.
Message(role, text, typing) == [row |-> role, typing |-> typing, text |-> text]

\* Variant: the pending bubble is rendered whether loading or not.
RenderAlwaysPending ==
    [k \in 1..Len(messages) |->
        Message(messages[k].role, messages[k].text, FALSE)]
    \o <<Message("bot", TypingText, TRUE)>>

\* messages.map(...) followed by loading && <Message ... typing />.
Render ==
    [k \in 1..Len(messages) |->
        Message(messages[k].role, messages[k].text, FALSE)]
    \o (IF loading THEN <<Message("bot", TypingText, TRUE)>> ELSE <<>>)

----------------------------------------------------------------------------
\* Vocabulary of the properties.

Last(s) == s[Len(s)]

\* White space only, said without trim.
Blank(s) == \A k \in 1..Len(s) : s[k] \in WhiteSpace

UserMsg(d) == [role |-> "user", text |-> Str(d)]
BotMsg(t) == [role |-> "bot", text |-> t]

\* The step invokes sendMessage: Enter without Shift, or the button.
SubmitInvoked ==
    \/ event' = Ev("keydown", "Enter", FALSE, TRUE)
    \/ event' = Ev("click", "", FALSE, FALSE)

\* The step is the end of an invocation of sendMessage.
Settles == Len(calls') < Len(calls)

\* The invocation ends on a response with a success status whose body is a
\* JSON object carrying a reply string.
SuccessWithReply(c) ==
    /\ c.pc = "json"
    /\ c.res.status = 200
    /\ c.res.body.json /\ ~c.res.body.null /\ c.res.body.hasReply

----------------------------------------------------------------------------
\* C1: at most one request is outstanding; while one is, no step issues a
\* request, none starts a second invocation, and a submit (the only step
\* that then neither settles nor edits the draft) leaves messages as they are.
C1_OneOutstanding ==
    [][calls # <<>> =>
          /\ Len(calls) = 1
          /\ requests' = requests
          /\ Len(calls') <= 1
          /\ (SubmitInvoked => messages' = messages /\ calls' = calls)]_vars

\* "A" is in flight, "B" was typed and submitted, and only "A" was sent.
C1_Witness ==
    /\ Len(calls) = 1
    /\ input = <<"B">>
    /\ event = Ev("keydown", "Enter", FALSE, TRUE)
    /\ requests = <<Request(<<"A">>)>>
    /\ messages = <<UserMsg(<<"A">>)>>

\* C2: a connection failure, a response with a non-success status (whatever
\* its body) and a body that is not JSON each end with the fallback text
\* appended as the bot message of the submission.
C2_UniformFailure ==
    [][Settles /\ (\/ calls[1].pc = "fetch"
                   \/ calls[1].res.status # 200
                   \/ ~calls[1].res.body.json) =>
          messages' = Append(messages, BotMsg(FallbackText))]_vars

\* C3: from the start of an accepted submission to its end exactly one bot
\* message is appended: none while the request is outstanding, one at the end.
C3_ExactlyOneBot ==
    [][/\ (calls # <<>> /\ ~Settles => messages' = messages)
       /\ (Settles =>
             /\ Len(messages') = Len(messages) + 1
             /\ SubSeq(messages', 1, Len(messages)) = messages
             /\ Last(messages').role = "bot")]_vars

\* C4: a submission of d on messages M answered by a success response with
\* reply r ends with messages = M, {user, d}, {bot, r} and loading false, and
\* its end leaves the draft as it is.
C4_SuccessAppendsReply ==
    [][Settles /\ SuccessWithReply(calls[1]) =>
          /\ messages' = calls[1].seen \o
                 <<UserMsg(calls[1].userText), BotMsg(Str(calls[1].res.body.reply))>>
          /\ ~loading'
          /\ input' = input]_vars

\* "A" answered by "Hi" from the empty conversation, nothing typed since.
C4_Witness ==
    /\ messages = <<UserMsg(<<"A">>), BotMsg(Str(<<"H", "i">>))>>
    /\ ~loading
    /\ input = <<>>
    /\ calls = <<>>
    /\ event.type = "body"

\* C5: a submission of d on messages M whose fetch is rejected ends with
\* messages = M, {user, d}, {bot, fallback text} and loading false.
C5_NetworkErrorAppendsFallback ==
    [][Settles /\ calls[1].pc = "fetch" =>
          /\ messages' = calls[1].seen \o
                 <<UserMsg(calls[1].userText), BotMsg(FallbackText)>>
          /\ ~loading']_vars

C5_Witness ==
    /\ messages = <<UserMsg(<<"A">>), BotMsg(FallbackText)>>
    /\ ~loading
    /\ calls = <<>>
    /\ event.type = "networkError"

\* C6: a submit with a draft that is empty or white space only, or while
\* loading, changes nothing and issues no request.
C6_RejectedSubmitIsNoOp ==
    [][SubmitInvoked /\ (Blank(input) \/ loading) =>
          UNCHANGED <<messages, input, loading, requests, calls>>]_vars

\* Enter was pressed on a draft of two spaces: nothing moved.
C6_Witness ==
    /\ event = Ev("keydown", "Enter", FALSE, TRUE)
    /\ input = <<" ", " ">>
    /\ messages = <<>>
    /\ requests = <<>>
    /\ ~loading

\* C7: an accepted submit appends the user message, clears the draft and sets
\* loading in the step that issues the request; as long as the request is
\* outstanding the user message is the last message and loading is true.
C7_OptimisticSend ==
    /\ [](calls # <<>> =>
            /\ loading
            /\ messages = Append(calls[1].seen, UserMsg(calls[1].userText)))
    /\ [][Len(requests') > Len(requests) =>
            /\ messages' = Append(messages, UserMsg(input))
            /\ input' = <<>>
            /\ loading']_vars

\* The response to " A " has arrived and its body has not: the user message
\* is there, untrimmed, and no bot message yet.
C7_Witness ==
    /\ Len(calls) = 1
    /\ calls[1].pc = "json"
    /\ messages = <<UserMsg(<<" ", "A", " ">>)>>
    /\ loading

\* C8: the draft changes only by an edit or by the start of an accepted
\* submission, which empties it; the end of a request leaves it alone.
C8_DraftClearedOnlyAtStart ==
    [][/\ (Len(requests') > Len(requests) => input' = <<>>)
       /\ (input' # input =>
             event'.type = "change" \/ Len(requests') > Len(requests))]_vars

\* "B" was typed while "A" was in flight and is still the draft after the end.
C8_Witness ==
    /\ event.type \in {"body", "networkError"}
    /\ input = <<"B">>
    /\ Len(messages) = 2
    /\ messages[1] = UserMsg(<<"A">>)
    /\ ~loading

\* C9: if every request settles, loading = TRUE leads to loading = FALSE.
C9_LoadingClears == loading ~> ~loading

\* Both ways out have been taken: one submission failed, one was answered.
C9_Witness ==
    /\ ~loading
    /\ Len(messages) = 4
    /\ messages[2] = BotMsg(FallbackText)
    /\ messages[4] = BotMsg(Str(<<"H", "i">>))

\* C10: the end of a request never leaves the component crashed or loading,
\* and once no request is outstanding a submit with a non-blank draft is
\* accepted.
C10_UsableAfterFailure ==
    [][/\ (Settles => ~crashed' /\ ~loading')
       /\ (SubmitInvoked /\ calls = <<>> /\ ~Blank(input) =>
             /\ messages' = Append(messages, UserMsg(input))
             /\ loading'
             /\ requests' = Append(requests, Request(input)))]_vars

\* C11: an edit of the draft is possible in every state of the mounted
\* component, loading or not, and for every text; it makes that text the
\* draft and leaves messages, loading, the outstanding invocation and the
\* requests as they are.
C11_UpdateDraft ==
    /\ [](~crashed =>
            \A text \in Texts :
                ENABLED (Change(text) /\ input' = text))
    /\ [][event'.type = "change" =>
            /\ input' \in Texts
            /\ UNCHANGED <<messages, loading, calls, requests>>]_vars

\* The draft was edited while the response to "A" was awaited.
C11_Witness ==
    /\ event.type = "change"
    /\ loading
    /\ Len(calls) = 1
    /\ calls[1].pc = "fetch"
    /\ input = <<" ", "A", " ">>
    /\ messages = <<UserMsg(<<"A">>)>>

\* C12: every message has role user or bot and a text that is a string; no
\* bot message without a text is ever appended.
C12_WellFormedMessages ==
    \A k \in 1..Len(messages) :
        /\ messages[k].role \in {"user", "bot"}
        /\ messages[k].text.t = "string"

\* C13: loading goes from true to false only in the step that ends the
\* outstanding invocation; until then it stays true through every edit and
\* every submit, and every submit is rejected.
C13_LoadingHeldUntilSettlement ==
    [][/\ (loading /\ ~loading' =>
             Settles /\ event'.type \in {"networkError", "body"})
       /\ (calls # <<>> /\ ~Settles => loading /\ loading')
       /\ (loading /\ SubmitInvoked =>
             UNCHANGED <<messages, input, loading, requests, calls>>)]_vars

\* The body of the response to "A" is still awaited; "B" was typed and Enter
\* pressed, to no effect.
C13_Witness ==
    /\ loading
    /\ Len(calls) = 1
    /\ calls[1].pc = "json"
    /\ event = Ev("keydown", "Enter", FALSE, TRUE)
    /\ input = <<"B">>
    /\ Len(requests) = 1

\* C14: the component starts with no messages, an empty draft and loading
\* false; every step keeps the messages there are, in place and in order, and
\* adds some only when a submission is accepted or an invocation ends.
C14_AppendOnly ==
    /\ (messages = <<>> /\ input = <<>> /\ ~loading)
    /\ [][/\ Len(messages') >= Len(messages)
          /\ SubSeq(messages', 1, Len(messages)) = messages
          /\ (messages' # messages =>
                Len(requests') > Len(requests) \/ Settles)]_vars

\* Two exchanges, "A" then "B", the first of them failed.
C14_Witness ==
    /\ Len(messages) = 4
    /\ messages[1] = UserMsg(<<"A">>)
    /\ messages[2] = BotMsg(FallbackText)
    /\ messages[3] = UserMsg(<<"B">>)
    /\ calls = <<>>

IsUser(m) == m.role = "user"

\* C15: the message member of the k-th request and the text of the k-th user
\* message are the same value, the draft as it was when the submit was
\* accepted, white space included; an edit of the draft changes neither.
C15_PayloadIsDraft ==
    /\ [](LET users == SelectSeq(messages, IsUser) IN
            /\ Len(users) = Len(requests)
            /\ \A k \in 1..Len(requests) :
                   users[k].text = Str(requests[k].body.message))
    /\ [][/\ (Len(requests') > Len(requests) =>
                /\ requests' = Append(requests, Request(input))
                /\ Last(requests').body.message = input
                /\ Last(messages') = UserMsg(input))
          /\ (event'.type = "change" =>
                requests' = requests /\ messages' = messages)]_vars

\* " A " was sent as it was typed, and "B" typed while it is in flight.
C15_Witness ==
    /\ requests = <<Request(<<" ", "A", " ">>)>>
    /\ requests[1].body.message = <<" ", "A", " ">>
    /\ messages = <<UserMsg(<<" ", "A", " ">>)>>
    /\ calls # <<>>
    /\ event.type = "change"
    /\ input = <<"B">>

\* C16: what the component renders for a state is one bubble per message, in
\* order, with the role and text of that message, and after them one more
\* bubble, the pending bot bubble, exactly when loading is true; that bubble
\* stands after the last message and is none of them.
C16_ViewOfState ==
    /\ Len(Render) = Len(messages) + (IF loading THEN 1 ELSE 0)
    /\ \A k \in 1..Len(messages) :
           /\ Render[k].row = messages[k].role
           /\ Render[k].text = messages[k].text
           /\ ~Render[k].typing
    /\ \A k \in 1..Len(Render) :
           Render[k].typing <=> (loading /\ k = Len(messages) + 1)
    /\ (loading =>
           Render[Len(messages) + 1] =
               [row |-> "bot", typing |-> TRUE, text |-> TypingText])

\* A second question is in flight: three messages and the pending bubble.
C16_Witness ==
    /\ loading
    /\ Len(messages) = 3
    /\ Len(Render) = 4
    /\ Render[4].typing
    /\ Render[3].row = "user"

\* C17: a submission starts only in the handling of a click on the button or
\* of Enter without Shift; any other keydown, Shift+Enter included, changes
\* nothing and leaves the key to the textarea; while loading no click reaches
\* the handler and no step starts a submission.
C17_SubmitTriggers ==
    [][/\ (Len(requests') > Len(requests) \/ Len(calls') > Len(calls) =>
             SubmitInvoked)
       /\ (event'.type = "keydown" /\ ~(event'.key = "Enter" /\ ~event'.shiftKey) =>
             /\ ~event'.defaultPrevented
             /\ UNCHANGED <<messages, input, loading, requests, calls>>)
       /\ (loading =>
             /\ event' # Ev("click", "", FALSE, FALSE)
             /\ requests' = requests
             /\ Len(calls') <= Len(calls))]_vars

\* Shift+Enter on the draft "A" while idle: nothing was sent, the draft stays.
C17_Witness ==
    /\ event = Ev("keydown", "Enter", TRUE, FALSE)
    /\ input = <<"A">>
    /\ ~loading
    /\ requests = <<>>
    /\ messages = <<>>

\* C18: messages alternate user, bot, user, ... from the first; their number
\* is odd exactly when a submission is in flight (loading true, the last one
\* the unanswered user message) and even exactly when none is (loading
\* false, the last one, if any, a bot message).
C18_Alternation ==
    /\ \A k \in 1..Len(messages) :
           messages[k].role = (IF k % 2 = 1 THEN "user" ELSE "bot")
    /\ (Len(messages) % 2 = 1) <=> loading
    /\ loading <=> (calls # <<>>)

====
